---- MODULE Spec2Model ----
(***************************************************************************)
(* A model of liblk: the LK image codec (liblk/image.py), its partitions   *)
(* (liblk/structures/partition.py) and the 512-byte header                 *)
(* (liblk/structures/header.py).                                           *)
(*                                                                         *)
(* Bytes are numbers 0..255 and byte strings are sequences of bytes.  A    *)
(* c_uint field of the ctypes structure is kept as its 4 little-endian     *)
(* bytes, a Python int below 2^64 that is an address is kept as its 8      *)
(* little-endian bytes, and a str is kept as the sequence of its character *)
(* codes, so the header layout is the real one, byte for byte.             *)
(***************************************************************************)
EXTENDS Integers, Sequences, FiniteSets, TLC

VARIABLES contents, partitions, outcome, edits, version

vars == <<contents, partitions, outcome, edits, version>>

-----------------------------------------------------------------------------
(* Bounds of the model *)

\* most certificates attached to the partitions of the image, in all
MaxCerts == 1
\* most patches and data assignments applied to one image
MaxEdits == 1
\* most iterations of the parser loop that are followed
MaxParseIter == 6

-----------------------------------------------------------------------------
(* Byte strings *)

\* b'\x00' * n
Zeros(n) == [i \in 1..n |-> 0]

Min(a, b) == IF a < b THEN a ELSE b
Max(a, b) == IF a < b THEN b ELSE a

\* Python's s[i:j] for 0 <= i, any j: both ends are clamped to len(s)
Slice(s, i, j) == SubSeq(s, Min(i, Len(s)) + 1, Min(j, Len(s)))

\* s[i:] for i >= 0
SliceFrom(s, i) == SubSeq(s, Min(i, Len(s)) + 1, Len(s))

\* a prefix test that holds for the whole string only
StartsWith_equal(s, p) == s = p

\* s.startswith(p)
StartsWith(s, p) == Len(s) >= Len(p) /\ SubSeq(s, 1, Len(p)) = p

\* bytes.find / bytearray.find: lowest 0-based index of needle, -1 if absent
\* (an empty needle is found at 0)
Find(s, needle) ==
  IF needle = <<>> THEN 0
  ELSE LET hits == {i \in 0..(Len(s) - Len(needle)) :
                      /\ s[i + 1] = needle[1]
                      /\ SubSeq(s, i + 1, i + Len(needle)) = needle}
       IN IF hits = {} THEN -1
          ELSE CHOOSE i \in hits : \A j \in hits : i <= j

\* a slice assignment that inserts p at i and overwrites nothing
SliceInsert(s, i, p) == SubSeq(s, 1, i) \o p \o SliceFrom(s, i)

\* bytearray slice assignment s[i : i + len(p)] = p
SliceAssign(s, i, p) == SubSeq(s, 1, i) \o p \o SliceFrom(s, i + Len(p))

\* a c_uint holding n (n taken modulo 2^32), as its 4 little-endian bytes
LE32(n) == <<n % 256, (n \div 256) % 256, (n \div 65536) % 256,
             (n \div 16777216) % 256>>

\* the number held by a c_uint
U32(w) == w[1] + 256 * w[2] + 65536 * w[3] + 16777216 * w[4]

\* value & 0xFFFFFFFF and (value >> 32) & 0xFFFFFFFF of an 8-byte address
Low32(v) == SubSeq(v, 1, 4)
High32(v) == SubSeq(v, 5, 8)

\* an address given by its two 32-bit halves: (hi << 32) | lo
Addr(hi, lo) == LE32(lo) \o LE32(hi)

-----------------------------------------------------------------------------
(* Constants of the format *)

\* Magic.MAGIC = 0x58881688
MAGIC == 1485313672
\* Magic.EXT_MAGIC = 0x58891689
EXT_MAGIC == 1485379209
\* sizeof(ImageHeader)
HeaderSize == 512
\* length of the _cname field
NameLen == 32
\* length of the _padding field
PaddingLen == 432
\* alignment of a legacy (non-extended) partition
LegacyAlignment == 8

\* 'cert', 'cert1', 'cert2', 'lk', '_'
Str_cert == <<99, 101, 114, 116>>
Str_cert1 == <<99, 101, 114, 116, 49>>
Str_cert2 == <<99, 101, 114, 116, 50>>
Str_lk == <<108, 107>>
Str_underscore == <<95>>

\* ImageGroup.GROUP_AP / AP_BIN, ImageGroup.GROUP_CERT / CERT1, CERT2:
\* the 4 bytes _id, reserved0, reserved1, _group
ImageType_AP_BIN == <<0, 0, 0, 0>>
ImageType_CERT1 == <<0, 0, 0, 2>>
ImageType_CERT2 == <<2, 0, 0, 2>>

-----------------------------------------------------------------------------
(* ImageHeader: the ctypes structure, field by field *)

\* ImageHeader(): every byte zero
NewHeader ==
  [magic |-> LE32(0), dsize |-> LE32(0), cname |-> Zeros(NameLen),
   maddr |-> LE32(0), mode |-> LE32(0), ext_magic |-> LE32(0),
   hdr_size |-> LE32(0), hdr_version |-> LE32(0),
   image_type |-> LE32(0), image_list_end |-> LE32(0),
   alignment |-> LE32(0), dsize_extend |-> LE32(0),
   maddr_extend |-> LE32(0), padding |-> Zeros(PaddingLen)]

\* bytes(header): the 512 bytes of the structure, in field order
HeaderBytes(h) ==
  h.magic \o h.dsize \o h.cname \o h.maddr \o h.mode \o h.ext_magic
  \o h.hdr_size \o h.hdr_version \o h.image_type \o h.image_list_end
  \o h.alignment \o h.dsize_extend \o h.maddr_extend \o h.padding

\* a decoder that takes _dsize_extend and _maddr_extend in the other order
from_buffer_copy_swapped(b) ==
  [magic |-> SubSeq(b, 1, 4), dsize |-> SubSeq(b, 5, 8),
   cname |-> SubSeq(b, 9, 40), maddr |-> SubSeq(b, 41, 44),
   mode |-> SubSeq(b, 45, 48), ext_magic |-> SubSeq(b, 49, 52),
   hdr_size |-> SubSeq(b, 53, 56), hdr_version |-> SubSeq(b, 57, 60),
   image_type |-> SubSeq(b, 61, 64), image_list_end |-> SubSeq(b, 65, 68),
   alignment |-> SubSeq(b, 69, 72), dsize_extend |-> SubSeq(b, 77, 80),
   maddr_extend |-> SubSeq(b, 73, 76), padding |-> SubSeq(b, 81, 512)]

\* ImageHeader.from_buffer_copy(b), for len(b) >= 512
from_buffer_copy(b) ==
  [magic |-> SubSeq(b, 1, 4), dsize |-> SubSeq(b, 5, 8),
   cname |-> SubSeq(b, 9, 40), maddr |-> SubSeq(b, 41, 44),
   mode |-> SubSeq(b, 45, 48), ext_magic |-> SubSeq(b, 49, 52),
   hdr_size |-> SubSeq(b, 53, 56), hdr_version |-> SubSeq(b, 57, 60),
   image_type |-> SubSeq(b, 61, 64), image_list_end |-> SubSeq(b, 65, 68),
   alignment |-> SubSeq(b, 69, 72), dsize_extend |-> SubSeq(b, 73, 76),
   maddr_extend |-> SubSeq(b, 77, 80), padding |-> SubSeq(b, 81, 512)]

\* a magic test that accepts every header
is_header_any(h) == TRUE

is_header(h) == h.magic = LE32(MAGIC)

is_extended(h) == h.ext_magic = LE32(EXT_MAGIC)

\* reading a c_char array field: the bytes before the first NUL
RECURSIVE UntilNul(_)
UntilNul(s) ==
  IF s = <<>> \/ Head(s) = 0 THEN <<>> ELSE <<Head(s)>> \o UntilNul(Tail(s))

\* name getter: _cname.decode('ascii'); raises on a byte above 127
name_decodes(h) == \A i \in 1..Len(UntilNul(h.cname)) : UntilNul(h.cname)[i] < 128
header_name(h) == UntilNul(h.cname)

\* a name setter that always keeps a terminating NUL in the field, so that at
\* most 31 bytes of the value are stored
set_name_terminated(h, value) ==
  [h EXCEPT !.cname =
     SubSeq(value, 1, Min(Len(value), NameLen - 1)) \o <<0>>
     \o SubSeq(h.cname, Min(Len(value), NameLen - 1) + 2, NameLen)]

\* name setter, for len(value) <= 32: the bytes of value, then a NUL if there
\* is room for one; the bytes after it keep their value
set_name(h, value) ==
  [h EXCEPT !.cname =
     IF Len(value) < NameLen
       THEN value \o <<0>> \o SubSeq(h.cname, Len(value) + 2, NameLen)
       ELSE value]

\* data_size getter
data_size(h) ==
  IF is_extended(h)
    THEN U32(h.dsize_extend) * 65536 * 65536 + U32(h.dsize)
    ELSE U32(h.dsize)

\* data_size setter; value >> 32 is written as two shifts by 16
set_data_size(h, value) ==
  IF is_extended(h)
    THEN [h EXCEPT !.dsize = LE32(value),
                   !.dsize_extend = LE32((value \div 65536) \div 65536)]
    ELSE [h EXCEPT !.dsize = LE32(value)]

\* data_size getter with its full width, as an 8-byte value:
\* (_dsize_extend << 32) | _dsize, or _dsize alone
data_size_wide(h) ==
  IF is_extended(h) THEN h.dsize \o h.dsize_extend ELSE h.dsize \o LE32(0)

\* size getter
header_size(h) == IF is_extended(h) THEN U32(h.hdr_size) ELSE HeaderSize

\* memory_address getter, as an 8-byte address
memory_address(h) ==
  IF is_extended(h) THEN h.maddr \o h.maddr_extend ELSE h.maddr \o LE32(0)

\* memory_address setter, for an 8-byte address
set_memory_address(h, value) ==
  IF is_extended(h)
    THEN [h EXCEPT !.maddr = Low32(value), !.maddr_extend = High32(value)]
    ELSE [h EXCEPT !.maddr = Low32(value)]

\* ImageHeader.end_offset(offset)
header_end_offset(h, offset) == offset + header_size(h) + data_size(h)

-----------------------------------------------------------------------------
(* LkPartition: header, data, end_offset, certs, lk_address *)

\* an optional argument or attribute is None or Some(value)
None == <<>>
Some(v) == <<v>>

\* Pattern.LOADADDR = 10 FF 2F E1
LOADADDR == <<16, 255, 47, 225>>

\* 'BFBF'
BFBF == <<66, 70, 66, 70>>

LkPartition(header, data, end_offset, certs, lk_address) ==
  [header |-> header, data |-> data, end_offset |-> end_offset,
   certs |-> certs, lk_address |-> lk_address]

\* the alignment both __bytes__ and from_bytes use
effective_alignment(h) ==
  IF is_extended(h) THEN U32(h.alignment) ELSE LegacyAlignment

\* a padding that ignores the alignment field of an extended header
padding_size_legacy(h) ==
  IF data_size(h) % LegacyAlignment # 0
    THEN LegacyAlignment - (data_size(h) % LegacyAlignment)
    ELSE 0

\* __bytes__: the zero bytes after the payload
padding_size(h) ==
  LET alignment == effective_alignment(h)
  IN IF alignment # 0 /\ data_size(h) % alignment # 0
       THEN alignment - (data_size(h) % alignment)
       ELSE 0

RECURSIVE bytes_raises(_)
\* __bytes__ raises ValueError: header.data_size != len(data), here or in a
\* certificate
bytes_raises(p) ==
  \/ data_size(p.header) # Len(p.data)
  \/ \E i \in DOMAIN p.certs : bytes_raises(p.certs[i])

RECURSIVE partition_bytes(_)
RECURSIVE certs_bytes(_)
\* b''.join(bytes(cert) for cert in certs)
certs_bytes(certs) ==
  IF certs = <<>> THEN <<>>
  ELSE partition_bytes(Head(certs)) \o certs_bytes(Tail(certs))

\* __bytes__, when it does not raise
partition_bytes(p) ==
  HeaderBytes(p.header) \o p.data \o Zeros(padding_size(p.header))
  \o certs_bytes(p.certs)

\* the data setter
set_data(p, value) ==
  [p EXCEPT !.data = value, !.header = set_data_size(p.header, Len(value))]

\* LkPartition.apply_patch without the update of header.data_size
partition_apply_patch_keeps_size(p, needle, patch) ==
  LET offset == Find(p.data, needle)
  IN IF offset # -1
       THEN [raised |-> "none",
             part |-> [p EXCEPT !.data = SubSeq(p.data, 1, offset) \o patch
                                 \o SliceFrom(p.data, offset + Len(patch))]]
       ELSE [raised |-> "NeedleNotFoundException", part |-> p]

\* LkPartition.apply_patch without the test of offset against -1: the slice
\* assignment at -1 puts patch before the last byte
partition_apply_patch_unchecked(p, needle, patch) ==
  LET offset == Find(p.data, needle)
      patched == IF offset # -1 THEN SliceAssign(p.data, offset, patch)
                 ELSE SubSeq(p.data, 1, Len(p.data) - 1) \o patch
                      \o SliceFrom(p.data, Max(Len(p.data) - 1, 0))
  IN [raised |-> "none",
      part |-> [p EXCEPT !.data = patched,
                  !.header = set_data_size(p.header, Len(patched))]]

\* LkPartition.apply_patch: the partition after it, and whether it raised
partition_apply_patch(p, needle, patch) ==
  LET offset == Find(p.data, needle)
  IN IF offset # -1
       THEN LET patched == SliceAssign(p.data, offset, patch)
            IN [raised |-> "none",
                part |-> [p EXCEPT !.data = patched,
                            !.header = set_data_size(p.header, Len(patched))]]
       ELSE [raised |-> "NeedleNotFoundException", part |-> p]

\* cert_type in ('cert1', 'cert2')
valid_cert_type(cert_type) == cert_type \in {Str_cert1, Str_cert2}

\* the name add_certificate gives the certificate of the partition p
certificate_name(p, cert_type) ==
  IF header_name(p.header) # Str_lk
    THEN cert_type \o Str_underscore \o header_name(p.header)
    ELSE cert_type

\* LkPartition.add_certificate, for a valid cert_type and a certificate name
\* of at most 32 characters: the new certificate
new_certificate(p, cert_data, cert_type) ==
  LET base_name == header_name(p.header)
      cert_name == IF base_name # Str_lk
                     THEN cert_type \o Str_underscore \o base_name
                     ELSE cert_type
      h1 == [NewHeader EXCEPT !.magic = p.header.magic]
      h2 == set_name(h1, cert_name)
      h3 == set_data_size(h2, Len(cert_data))
      h4 == set_memory_address(h3, Addr(0, 0))
      h5 == [h4 EXCEPT !.mode = LE32(0), !.image_list_end = LE32(0)]
      h6 == IF is_extended(p.header)
              THEN [h5 EXCEPT !.ext_magic = p.header.ext_magic,
                              !.hdr_size = LE32(512),
                              !.hdr_version = LE32(1),
                              !.alignment = p.header.alignment]
              ELSE [h5 EXCEPT !.ext_magic = LE32(0), !.hdr_size = LE32(0),
                              !.hdr_version = LE32(0), !.alignment = LE32(0)]
      h7 == [h6 EXCEPT !.image_type =
               IF cert_type = Str_cert1 THEN ImageType_CERT1
               ELSE ImageType_CERT2]
  IN LkPartition(h7, cert_data, 0, <<>>, None)

\* str.lower() of an ASCII string
Lower(s) == [i \in 1..Len(s) |-> IF s[i] >= 65 /\ s[i] <= 90 THEN s[i] + 32 ELSE s[i]]

\* LkPartition.from_bytes(contents, offset): contents is the image from
\* offset on.  Every exception of the body becomes InvalidLkPartition, with
\* the text of the exception as its message.
from_bytes(conts, offset) ==
  LET start_offset == IF Slice(conts, 0, 4) = BFBF THEN 16448 ELSE 0
      header_contents == Slice(conts, start_offset, start_offset + 512)
  IN IF Len(header_contents) < HeaderSize
       THEN [raised |-> TRUE,
             message |-> [text |-> "Buffer size too small",
                          size |-> Len(header_contents)]]
     ELSE LET header == from_buffer_copy(header_contents) IN
     IF ~is_header(header)
       THEN [raised |-> TRUE,
             message |-> [text |-> "Invalid magic", magic |-> header.magic,
                          offset |-> offset]]
     ELSE
       LET raw_end == header_end_offset(header, offset)
           alignment == effective_alignment(header)
           end_offset ==
             IF alignment # 0 /\ raw_end % alignment # 0
               THEN raw_end + (alignment - (raw_end % alignment))
               ELSE raw_end
           partition_data ==
             Slice(conts, header_size(header),
                   header_size(header) + data_size(header))
       IN IF ~name_decodes(header)
            THEN [raised |-> TRUE,
                  message |-> [text |-> "'ascii' codec can't decode"]]
          ELSE IF Lower(header_name(header)) = Str_lk
            THEN IF Low32(memory_address(header)) = <<255, 255, 255, 255>>
                   THEN LET loadaddr_index == Find(conts, LOADADDR)
                        IN IF loadaddr_index = -1
                             THEN [raised |-> FALSE,
                                   part |-> LkPartition(header, partition_data,
                                     end_offset, <<>>, Some(memory_address(header)))]
                           ELSE IF loadaddr_index + 12 > Len(conts)
                             THEN [raised |-> TRUE,
                                   message |->
                                     [text |-> "unpack_from requires a buffer"]]
                           ELSE [raised |-> FALSE,
                                 part |-> LkPartition(header, partition_data,
                                   end_offset, <<>>,
                                   Some(SubSeq(conts, loadaddr_index + 9,
                                     loadaddr_index + 12) \o LE32(0)))]
                   ELSE [raised |-> FALSE,
                         part |-> LkPartition(header, partition_data,
                           end_offset, <<>>, Some(memory_address(header)))]
            ELSE [raised |-> FALSE,
                  part |-> LkPartition(header, partition_data, end_offset,
                                       <<>>, None)]

-----------------------------------------------------------------------------
(* LkImage: contents and the ordered mapping partitions, a sequence of     *)
(* items [name, part] in the order of the OrderedDict                       *)

Item(name, part) == [name |-> name, part |-> part]

\* list(self.partitions.keys())
Keys(parts) == [i \in 1..Len(parts) |-> parts[i].name]

\* a membership test that looks at the last inserted key only
HasKey_last(parts, name) == Len(parts) > 0 /\ parts[Len(parts)].name = name

\* name in self.partitions
HasKey(parts, name) == \E i \in 1..Len(parts) : parts[i].name = name

\* a lookup that finds the first item whatever the key
IndexOf_first(parts, name) == 1

\* the index of a key of the mapping
IndexOf(parts, name) == CHOOSE i \in 1..Len(parts) : parts[i].name = name

\* a test of image_list_end that takes every value for a valid flag
is_valid_image_list_end_any(value) == TRUE

\* _is_valid_image_list_end
is_valid_image_list_end(value) == value \in {LE32(0), LE32(1)}

\* _is_end_of_partitions
is_end_of_partitions(conts, offset) ==
  \/ offset >= Len(conts)
  \/ Len(conts) - offset < 512
  \/ Slice(conts, offset, offset + 4) # LE32(MAGIC)

RECURSIVE parse_loop(_, _, _, _, _)
\* the while loop of _parse_partitions, from `offset` with `parts` parsed so
\* far; fuel counts the iterations still followed, and a loop that is left
\* unfinished gives the offset and the last_name it had reached
parse_loop(conts, offset, parts, last_name, fuel) ==
  IF ~(offset < Len(conts))
    THEN [raised |-> "none", partitions |-> parts]
  ELSE IF fuel = 0
    THEN [raised |-> "unfinished", partitions |-> parts, offset |-> offset,
          last_name |-> last_name]
  ELSE
    LET r == from_bytes(SliceFrom(conts, offset), offset) IN
    IF r.raised
      THEN IF parts # <<>>
             THEN [raised |-> "none", partitions |-> parts]
             ELSE [raised |-> "InvalidLkPartition", partitions |-> parts,
                   message |-> r.message]
    ELSE
      LET partition == r.part
          part_name == header_name(partition.header)
      IN
      IF ~is_header(partition.header)
        THEN [raised |-> "InvalidLkPartition", partitions |-> parts,
              message |-> [text |-> "Invalid magic",
                           magic |-> partition.header.magic,
                           offset |-> offset]]
      ELSE IF StartsWith(part_name, Str_cert) /\ ~HasKey(parts, last_name)
        THEN [raised |-> "InvalidLkPartition", partitions |-> parts,
              message |->
                [text |-> "Certificate partition placed before actual partition"]]
      ELSE IF ~StartsWith(part_name, Str_cert) /\ HasKey(parts, part_name)
        THEN [raised |-> "InvalidLkPartition", partitions |-> parts,
              message |-> [text |-> "Duplicate partition name",
                           name |-> last_name]]
      ELSE
        LET new_parts ==
              IF StartsWith(part_name, Str_cert)
                THEN [parts EXCEPT ![IndexOf(parts, last_name)].part.certs =
                                     Append(@, partition)]
                ELSE Append(parts, Item(part_name, partition))
            new_last == IF StartsWith(part_name, Str_cert) THEN last_name
                        ELSE part_name
            next_offset == partition.end_offset
        IN
        IF is_extended(partition.header)
           /\ partition.header.image_list_end = LE32(1)
          THEN [raised |-> "none", partitions |-> new_parts]
        ELSE IF (~is_extended(partition.header)
                 \/ ~is_valid_image_list_end(partition.header.image_list_end))
                /\ is_end_of_partitions(conts, next_offset)
          THEN [raised |-> "none", partitions |-> new_parts]
        ELSE parse_loop(conts, next_offset, new_parts, new_last, fuel - 1)

\* _parse_partitions on a fresh image
parse_partitions(conts) == parse_loop(conts, 0, <<>>, <<>>, MaxParseIter)

\* 'aee' and 'bl2_ext'
Str_aee == <<97, 101, 101>>
Str_bl2_ext == <<98, 108, 50, 95, 101, 120, 116>>

\* a version detection that compares the names without regard to case
detect_version_lower(parts) ==
  IF \E i \in 1..Len(parts) : Lower(parts[i].name) \in {Str_aee, Str_bl2_ext}
    THEN 2 ELSE 1

\* _detect_version: the version it assigns
detect_version(parts) ==
  IF HasKey(parts, Str_aee) \/ HasKey(parts, Str_bl2_ext) THEN 2 ELSE 1

\* _create_header, for len(name) <= 32 and the default image_type.  The size
\* and the address are stored while ext_magic is still 0.
create_header(name, size, address, mode, use_extended, alignment) ==
  LET extended == IF use_extended = "None"
                    THEN (size \div 65536) \div 65536 > 0
                         \/ High32(address) # LE32(0)
                    ELSE use_extended = "True"
      h1 == [NewHeader EXCEPT !.magic = LE32(MAGIC)]
      h2 == set_name(h1, name)
      h3 == set_data_size(h2, size)
      h4 == set_memory_address(h3, address)
      h5 == [h4 EXCEPT !.mode = LE32(mode), !.image_list_end = LE32(0)]
      h6 == IF extended
              THEN [h5 EXCEPT !.ext_magic = LE32(EXT_MAGIC),
                              !.hdr_size = LE32(512),
                              !.hdr_version = LE32(1),
                              !.alignment = LE32(alignment)]
              ELSE [h5 EXCEPT !.ext_magic = LE32(0), !.hdr_size = LE32(0),
                              !.hdr_version = LE32(0), !.alignment = LE32(0)]
  IN [h6 EXCEPT !.image_type = ImageType_AP_BIN]

\* an insertion that ignores the position and appends
Insert_append(items, position, item) == Append(items, item)

\* items.insert(position, item) for 0 <= position; a position past the end
\* appends
Insert(items, position, item) ==
  LET k == Min(position, Len(items))
  IN SubSeq(items, 1, k) \o <<item>> \o SubSeq(items, k + 1, Len(items))

RECURSIVE clear_certs(_)
\* for cert in partition.certs: cert.header.image_list_end = 0
clear_certs(certs) ==
  IF certs = <<>> THEN <<>>
  ELSE <<[Head(certs) EXCEPT !.header.image_list_end = LE32(0)]>>
       \o clear_certs(Tail(certs))

RECURSIVE keep_cert_flags(_)
\* clear_flags with the clearing of the certificates' flags left out
keep_cert_flags(parts) ==
  IF parts = <<>> THEN <<>>
  ELSE <<[Head(parts) EXCEPT !.part.header.image_list_end = LE32(0)]>>
       \o keep_cert_flags(Tail(parts))

RECURSIVE clear_flags(_)
\* the first loop of _rebuild_contents: every flag of the mapping is cleared
clear_flags(parts) ==
  IF parts = <<>> THEN <<>>
  ELSE <<[Head(parts) EXCEPT
            !.part.header.image_list_end = LE32(0),
            !.part.certs = clear_certs(Head(parts).part.certs)]>>
       \o clear_flags(Tail(parts))

\* the flag loops of _rebuild_contents, for a mapping that is not empty:
\* every flag is cleared, then the last unit of the last partition gets
\* image_list_end = 1
set_list_end_flags(parts) ==
  LET cleared == clear_flags(parts)
      n == Len(parts)
      last_partition == cleared[n].part
  IN IF last_partition.certs # <<>>
       THEN [cleared EXCEPT
               ![n].part.certs[Len(last_partition.certs)].header.image_list_end
                 = LE32(1)]
       ELSE [cleared EXCEPT ![n].part.header.image_list_end = LE32(1)]

RECURSIVE rebuild_loop(_, _, _)
\* the serializing loop of _rebuild_contents from the i-th partition on; it
\* stops at the first partition whose __bytes__ raises
rebuild_loop(parts, i, new_contents) ==
  IF i > Len(parts)
    THEN [raised |-> "none", partitions |-> parts, contents |-> new_contents]
  ELSE IF bytes_raises(parts[i].part)
    THEN [raised |-> "ValueError: data size mismatch", partitions |-> parts,
          contents |-> new_contents]
  ELSE LET partition_bytes_i == partition_bytes(parts[i].part)
       IN rebuild_loop(
            [parts EXCEPT ![i].part.end_offset =
                            Len(new_contents) + Len(partition_bytes_i)],
            i + 1, new_contents \o partition_bytes_i)

\* _rebuild_contents with new_contents starting from the old contents
rebuild_contents_appends(parts, conts) ==
  IF parts = <<>>
    THEN [raised |-> "none", partitions |-> parts, contents |-> <<>>]
  ELSE LET r == rebuild_loop(set_list_end_flags(parts), 1, conts)
       IN IF r.raised = "none" THEN r ELSE [r EXCEPT !.contents = conts]

\* a _rebuild_contents that keeps the old buffer when its length fits
rebuild_contents_keeps(parts, conts) ==
  IF parts = <<>>
    THEN [raised |-> "none", partitions |-> parts, contents |-> <<>>]
  ELSE LET r == rebuild_loop(set_list_end_flags(parts), 1, <<>>)
       IN IF r.raised = "none" /\ Len(r.contents) # Len(conts)
            THEN r ELSE [r EXCEPT !.contents = conts]

\* a _rebuild_contents that does nothing
rebuild_contents_skips(parts, conts) ==
  [raised |-> "none", partitions |-> parts, contents |-> conts]

\* _rebuild_contents: the mapping and the contents after it, and whether it
\* raised; contents is assigned only when no __bytes__ raised
rebuild_contents(parts, conts) ==
  IF parts = <<>>
    THEN [raised |-> "none", partitions |-> parts, contents |-> <<>>]
  ELSE LET r == rebuild_loop(set_list_end_flags(parts), 1, <<>>)
       IN IF r.raised = "none" THEN r ELSE [r EXCEPT !.contents = conts]

-----------------------------------------------------------------------------
(* Inputs of the operations *)

\* 'a', 'cert3' and a name of 33 characters
Str_a == <<97>>
Str_cert3 == <<99, 101, 114, 116, 51>>
LongName == [i \in 1..(NameLen + 1) |-> 110]

\* the calls of add_partition that are tried: name, data, memory_address,
\* use_extended, alignment (mode and image_type keep their defaults)
AddCall(name, data, address, use_extended, alignment) ==
  [name |-> name, data |-> data, memory_address |-> address,
   use_extended |-> use_extended, alignment |-> alignment]

AddCalls ==
  { AddCall(Str_a, <<201>>, Addr(0, 5), "True", 0),
    AddCall(Str_lk, <<201, 202, 201>>, Addr(1, 1), "None", 16),
    AddCall(LongName, <<201>>, Addr(0, 0), "False", 8) }

\* the names remove_partition, add_certificate and apply_patch are given
Names == {Str_a, Str_lk}

\* position: None, or an index into the mapping
Positions == {None} \cup {Some(k) : k \in 0..(Cardinality(Names) - 1)}

\* the owner, the type and the payload add_certificate is given
CertOwners == {Str_lk}
CertTypes == {Str_cert1, Str_cert2, Str_cert3}
CertPayloads == {<<205>>}

\* the calls of apply_patch that are tried, as <<needle, patch>>: a patch as
\* long as the needle, a longer one and a shorter one
PatchCalls ==
  { <<(<<201>>), (<<207>>)>>, <<(<<201>>), (<<207, 207>>)>>,
    <<(<<202, 201>>), (<<207>>)>> }

\* the partition apply_patch is given and the owner of an assigned payload
PatchTargets == {None} \cup {Some(name) : name \in Names}
DataOwners == {Str_lk}
DataValues == {<<>>}

\* the certificates of all the partitions
RECURSIVE CertCount(_)
CertCount(parts) ==
  IF parts = <<>> THEN 0
  ELSE Len(Head(parts).part.certs) + CertCount(Tail(parts))

\* a buffer that ends before the declared payload of its only partition:
\* the header of a legacy 'lk' of 3 bytes, then 2 bytes
TruncatedImage ==
  HeaderBytes(create_header(Str_lk, 3, Addr(0, 0), 0, "False", 8)) \o <<201, 202>>

\* the buffers an image is constructed from
InitBuffers == {<<>>, TruncatedImage}

-----------------------------------------------------------------------------
(* The state machine.  outcome records the last call: its name, what it     *)
(* raised ("none" when it returned) and, when it returned, its arguments.   *)
(* edits counts the patches and data assignments applied so far.            *)

Returned(op, args) == [op |-> op, raised |-> "none", args |-> args]
Raised(op, what) == [op |-> op, raised |-> what, args |-> <<>>]

\* LkImage(source) for a bytes-like source
Init ==
  \E source \in InitBuffers :
    /\ parse_partitions(source).raised = "none"
    /\ contents = source
    /\ partitions = parse_partitions(source).partitions
    /\ outcome = Returned("LkImage", <<>>)
    /\ edits = 0
    /\ version = detect_version(partitions)

\* add_partition storing the partition under its name as a plain mapping
\* assignment does, without looking for the name first
add_partition_unchecked(name, data, address, use_extended, alignment, position) ==
  /\ UNCHANGED version
  /\ IF Len(name) > 32
       THEN /\ outcome' = Raised("add_partition", "ValueError: name too long")
            /\ UNCHANGED <<contents, partitions, edits>>
     ELSE
       /\ LET header == create_header(name, Len(data), address, 0,
                                      use_extended, alignment)
              partition == LkPartition(header, data, 0, <<>>, None)
              items == IF HasKey(partitions, name)
                         THEN [partitions EXCEPT ![IndexOf(partitions, name)] =
                                 Item(name, partition)]
                       ELSE IF position = None
                         THEN Append(partitions, Item(name, partition))
                         ELSE Insert(partitions, position[1],
                                     Item(name, partition))
              r == rebuild_contents(items, contents)
          IN /\ partitions' = r.partitions
             /\ contents' = r.contents
             /\ outcome' =
                  IF r.raised = "none"
                    THEN Returned("add_partition",
                           [name |-> name, data |-> data, address |-> address,
                            use_extended |-> use_extended,
                            alignment |-> alignment, position |-> position])
                    ELSE Raised("add_partition", r.raised)
             /\ UNCHANGED edits

add_partition(name, data, address, use_extended, alignment, position) ==
  /\ UNCHANGED version
  /\ IF HasKey(partitions, name)
       THEN /\ outcome' = Raised("add_partition", "ValueError: already exists")
            /\ UNCHANGED <<contents, partitions, edits>>
     ELSE IF Len(name) > 32
       THEN /\ outcome' = Raised("add_partition", "ValueError: name too long")
            /\ UNCHANGED <<contents, partitions, edits>>
     ELSE
       /\ LET header == create_header(name, Len(data), address, 0,
                                      use_extended, alignment)
              partition == LkPartition(header, data, 0, <<>>, None)
              items == IF position = None
                         THEN Append(partitions, Item(name, partition))
                         ELSE Insert(partitions, position[1],
                                     Item(name, partition))
              r == rebuild_contents(items, contents)
          IN /\ partitions' = r.partitions
             /\ contents' = r.contents
             /\ outcome' =
                  IF r.raised = "none"
                    THEN Returned("add_partition",
                           [name |-> name, data |-> data, address |-> address,
                            use_extended |-> use_extended,
                            alignment |-> alignment, position |-> position])
                    ELSE Raised("add_partition", r.raised)
             /\ UNCHANGED edits

\* remove_partition dropping the name when it is there and rebuilding in any
\* case, as self.partitions.pop(name, None) would
remove_partition_silent(name) ==
  /\ UNCHANGED version
  /\ LET items == IF HasKey(partitions, name)
                    THEN SubSeq(partitions, 1, IndexOf(partitions, name) - 1)
                         \o SubSeq(partitions, IndexOf(partitions, name) + 1,
                                   Len(partitions))
                    ELSE partitions
         r == rebuild_contents(items, contents)
     IN /\ partitions' = r.partitions
        /\ contents' = r.contents
        /\ outcome' = IF r.raised = "none"
                        THEN Returned("remove_partition", [name |-> name])
                        ELSE Raised("remove_partition", r.raised)
        /\ UNCHANGED edits

\* a remove_partition that runs _detect_version after the rebuild
remove_partition_detects(name) ==
  IF ~HasKey(partitions, name)
    THEN /\ outcome' = Raised("remove_partition", "KeyError")
         /\ UNCHANGED <<contents, partitions, edits, version>>
  ELSE
    LET k == IndexOf(partitions, name)
        items == SubSeq(partitions, 1, k - 1)
                 \o SubSeq(partitions, k + 1, Len(partitions))
        r == rebuild_contents(items, contents)
    IN /\ partitions' = r.partitions
       /\ contents' = r.contents
       /\ version' = detect_version(r.partitions)
       /\ outcome' = IF r.raised = "none"
                       THEN Returned("remove_partition", [name |-> name])
                       ELSE Raised("remove_partition", r.raised)
       /\ UNCHANGED edits

remove_partition(name) ==
  /\ UNCHANGED version
  /\ IF ~HasKey(partitions, name)
       THEN /\ outcome' = Raised("remove_partition", "KeyError")
            /\ UNCHANGED <<contents, partitions, edits>>
     ELSE
       LET k == IndexOf(partitions, name)
           items == SubSeq(partitions, 1, k - 1)
                    \o SubSeq(partitions, k + 1, Len(partitions))
           r == rebuild_contents(items, contents)
       IN /\ partitions' = r.partitions
          /\ contents' = r.contents
          /\ outcome' = IF r.raised = "none"
                          THEN Returned("remove_partition", [name |-> name])
                          ELSE Raised("remove_partition", r.raised)
          /\ UNCHANGED edits

\* an add_certificate followed by _rebuild_contents, as add_partition is
add_certificate_rebuilds(owner, cert_data, cert_type) ==
  /\ UNCHANGED version
  /\ HasKey(partitions, owner)
  /\ LET k == IndexOf(partitions, owner) IN
     IF ~valid_cert_type(cert_type)
       THEN /\ outcome' = Raised("add_certificate",
                              "ValueError: invalid certificate type")
            /\ UNCHANGED <<contents, partitions, edits>>
     ELSE IF Len(certificate_name(partitions[k].part, cert_type)) > NameLen
       THEN /\ outcome' = Raised("add_certificate",
                              "ValueError: name too long")
            /\ UNCHANGED <<contents, partitions, edits>>
     ELSE
       /\ CertCount(partitions) < MaxCerts
       /\ LET r == rebuild_contents(
                     [partitions EXCEPT ![k].part.certs =
                        Append(@, new_certificate(partitions[k].part,
                                                  cert_data, cert_type))],
                     contents)
          IN /\ partitions' = r.partitions
             /\ contents' = r.contents
       /\ outcome' = Returned("add_certificate",
                        [owner |-> owner, cert_data |-> cert_data,
                         cert_type |-> cert_type])
       /\ UNCHANGED edits

\* self.partitions[owner].add_certificate(cert_data, cert_type)
add_certificate(owner, cert_data, cert_type) ==
  /\ UNCHANGED version
  /\ HasKey(partitions, owner)
  /\ LET k == IndexOf(partitions, owner) IN
     IF ~valid_cert_type(cert_type)
       THEN /\ outcome' = Raised("add_certificate",
                              "ValueError: invalid certificate type")
            /\ UNCHANGED <<contents, partitions, edits>>
     ELSE IF Len(certificate_name(partitions[k].part, cert_type)) > NameLen
       THEN /\ outcome' = Raised("add_certificate",
                              "ValueError: name too long")
            /\ UNCHANGED <<contents, partitions, edits>>
     ELSE
       /\ CertCount(partitions) < MaxCerts
       /\ partitions' =
            [partitions EXCEPT ![k].part.certs =
               Append(@, new_certificate(partitions[k].part, cert_data,
                                         cert_type))]
       /\ outcome' = Returned("add_certificate",
                        [owner |-> owner, cert_data |-> cert_data,
                         cert_type |-> cert_type])
       /\ UNCHANGED <<contents, edits>>

\* LkImage.apply_patch(needle, patch, partition), needle and patch bytes
apply_patch(needle, patch, partition) ==
  /\ UNCHANGED version
  /\ IF partition # None
       THEN
         IF ~HasKey(partitions, partition[1])
           THEN /\ outcome' = Raised("apply_patch", "KeyError")
                /\ UNCHANGED <<contents, partitions, edits>>
         ELSE
           LET k == IndexOf(partitions, partition[1])
               p == partition_apply_patch(partitions[k].part, needle, patch)
           IN IF p.raised # "none"
                THEN /\ outcome' = Raised("apply_patch", p.raised)
                     /\ UNCHANGED <<contents, partitions, edits>>
              ELSE
                /\ edits < MaxEdits
                /\ LET r == rebuild_contents(
                               [partitions EXCEPT ![k].part = p.part], contents)
                   IN /\ partitions' = r.partitions
                      /\ contents' = r.contents
                      /\ outcome' =
                           IF r.raised = "none"
                             THEN Returned("apply_patch",
                                    [needle |-> needle, patch |-> patch,
                                     partition |-> partition])
                             ELSE Raised("apply_patch", r.raised)
                      /\ edits' = edits + 1
     ELSE
       LET offset == Find(contents, needle)
       IN IF offset # -1
            THEN /\ edits < MaxEdits
                 /\ contents' = SliceAssign(contents, offset, patch)
                 /\ outcome' = Returned("apply_patch",
                                  [needle |-> needle, patch |-> patch,
                                   partition |-> partition])
                 /\ edits' = edits + 1
                 /\ UNCHANGED partitions
            ELSE /\ outcome' = Raised("apply_patch", "NeedleNotFoundException")
                 /\ UNCHANGED <<contents, partitions, edits>>

\* self.partitions[owner].data = value
assign_data(owner, value) ==
  /\ UNCHANGED version
  /\ HasKey(partitions, owner)
  /\ edits < MaxEdits
  /\ LET k == IndexOf(partitions, owner)
     IN partitions' = [partitions EXCEPT ![k].part = set_data(@, value)]
  /\ outcome' = Returned("data", [owner |-> owner, value |-> value])
  /\ edits' = edits + 1
  /\ UNCHANGED contents

\* a call of _rebuild_contents by the user of the image
rebuild ==
  /\ UNCHANGED version
  /\ LET r == rebuild_contents(partitions, contents)
     IN /\ partitions' = r.partitions
        /\ contents' = r.contents
        /\ outcome' = IF r.raised = "none" THEN Returned("rebuild", <<>>)
                       ELSE Raised("rebuild", r.raised)
        /\ UNCHANGED edits

Next ==
  \/ \E c \in AddCalls, position \in Positions :
       add_partition(c.name, c.data, c.memory_address, c.use_extended,
                     c.alignment, position)
  \/ \E name \in Names : remove_partition(name)
  \/ \E owner \in CertOwners, cert_data \in CertPayloads,
         cert_type \in CertTypes :
       add_certificate(owner, cert_data, cert_type)
  \/ \E c \in PatchCalls, partition \in PatchTargets :
       apply_patch(c[1], c[2], partition)
  \/ \E owner \in DataOwners, value \in DataValues : assign_data(owner, value)
  \/ rebuild

Spec == Init /\ [][Next]_vars

\* an image constructed from an empty buffer and then built only through
\* add_partition, add_certificate and _rebuild_contents
InitEmpty ==
  /\ contents = <<>>
  /\ partitions = parse_partitions(<<>>).partitions
  /\ outcome = Returned("LkImage", <<>>)
  /\ edits = 0
  /\ version = detect_version(partitions)

\* the calls of add_partition that build an image: those of AddCalls and a
\* partition with a name of 32 characters, for which a legacy header is
\* selected
Name32 == [i \in 1..NameLen |-> 110]
BuiltCalls == AddCalls \cup {AddCall(Name32, <<201, 202>>, Addr(0, 7), "None", 8)}
BuiltNames == Names \cup {Name32}

NextBuilt ==
  \/ \E c \in BuiltCalls, position \in Positions :
       add_partition(c.name, c.data, c.memory_address, c.use_extended,
                     c.alignment, position)
  \/ \E owner \in BuiltNames, cert_data \in CertPayloads,
         cert_type \in CertTypes :
       add_certificate(owner, cert_data, cert_type)
  \/ rebuild

SpecBuilt == InitEmpty /\ [][NextBuilt]_vars

-----------------------------------------------------------------------------
(* What the claims speak of *)

\* the units of the mapping in the order __bytes__ writes them: each
\* partition, then its certificates
RECURSIVE Units(_)
Units(parts) ==
  IF parts = <<>> THEN <<>>
  ELSE <<Head(parts).part>> \o Head(parts).part.certs \o Units(Tail(parts))

\* the names and payloads of a list of certificates
CertList(certs) ==
  [j \in 1..Len(certs) |->
     [name |-> header_name(certs[j].header), data |-> certs[j].data]]

\* two mappings with the same names in the same order, the same payloads
\* and the same certificates (count, order, names, payloads) on each owner
SameStructure(a, b) ==
  /\ Keys(a) = Keys(b)
  /\ \A i \in 1..Len(a) :
       /\ a[i].part.data = b[i].part.data
       /\ CertList(a[i].part.certs) = CertList(b[i].part.certs)

\* the last call ran _rebuild_contents to its end
Rebuilt ==
  /\ outcome.raised = "none"
  /\ outcome.op \in {"rebuild", "add_partition", "remove_partition"}

\* an image constructed from an empty buffer whose partitions are added at
\* every position and removed again
OrderPositions == {None} \cup {Some(k) : k \in 0..Cardinality(BuiltNames)}

NextOrder ==
  \/ \E c \in BuiltCalls, position \in OrderPositions :
       add_partition(c.name, c.data, c.memory_address, c.use_extended,
                     c.alignment, position)
  \/ \E name \in BuiltNames : remove_partition(name)

SpecOrder == InitEmpty /\ [][NextOrder]_vars

-----------------------------------------------------------------------------
(* The header codec on its own: a 512-byte block (contents) and the        *)
(* ImageHeader decoded from it (the header of the one item of partitions)  *)

\* 0xDEADBEEF and 0xBEEFDEED as c_uint bytes, 'test' and 'aaaaaaaa'
DEADBEEF == <<239, 190, 173, 222>>
BEEFDEED == <<237, 222, 239, 190>>
Str_test == <<116, 101, 115, 116>>
Str_aaaaaaaa == <<97, 97, 97, 97, 97, 97, 97, 97>>

\* a 512-byte block given by the bytes of its fields, in file order
Block(dsize, cname, maddr, ext_magic, dsize_extend, maddr_extend) ==
  LE32(MAGIC) \o dsize \o cname \o Zeros(NameLen - Len(cname)) \o maddr
  \o LE32(474) \o ext_magic \o LE32(512) \o LE32(1) \o ImageType_CERT2
  \o LE32(0) \o LE32(16) \o dsize_extend \o maddr_extend \o Zeros(PaddingLen)

\* the blocks that are decoded: with EXT_MAGIC, with no ext_magic and with
\* an ext_magic that differs from EXT_MAGIC in one byte
HeaderBlocks ==
  { Block(LE32(8), cname, maddr, ext_magic, dsize_extend, maddr_extend) :
      cname \in {Str_test, Name32},
      maddr \in {DEADBEEF, LE32(5)},
      ext_magic \in {LE32(EXT_MAGIC), LE32(0), LE32(EXT_MAGIC + 1)},
      dsize_extend \in {LE32(0), LE32(1)},
      maddr_extend \in {BEEFDEED, LE32(0)} }

\* the names and addresses the setters are given
HeaderNames == {Str_test, Str_aaaaaaaa, Name32, LongName}
HeaderAddresses == {DEADBEEF \o BEEFDEED, Addr(0, 5)}

\* the decoded header
TheHeader == partitions[1].part.header
WithHeader(h) == <<Item(<<>>, LkPartition(h, <<>>, 0, <<>>, None))>>

\* header = ImageHeader.from_buffer_copy(block)
InitHeader ==
  /\ contents \in HeaderBlocks
  /\ partitions = WithHeader(from_buffer_copy(contents))
  /\ outcome = Returned("from_buffer_copy", <<>>)
  /\ edits = 0
  /\ version = 1

\* header = ImageHeader.from_buffer_copy(block)
decode ==
  /\ UNCHANGED version
  /\ partitions' = WithHeader(from_buffer_copy(contents))
  /\ outcome' = Returned("from_buffer_copy", <<>>)
  /\ UNCHANGED <<contents, edits>>

\* block = bytes(header)
encode ==
  /\ UNCHANGED version
  /\ contents' = HeaderBytes(TheHeader)
  /\ outcome' = Returned("bytes", <<>>)
  /\ UNCHANGED <<partitions, edits>>

\* header.name = value
assign_name(value) ==
  /\ UNCHANGED version
  /\ IF Len(value) > 32
       THEN /\ outcome' = Raised("name", "ValueError: name too long")
            /\ UNCHANGED <<contents, partitions, edits>>
     ELSE /\ edits < MaxEdits
          /\ partitions' = WithHeader(set_name(TheHeader, value))
          /\ outcome' = Returned("name", [value |-> value])
          /\ edits' = edits + 1
          /\ UNCHANGED contents

\* header.memory_address = value
assign_memory_address(value) ==
  /\ UNCHANGED version
  /\ edits < MaxEdits
  /\ partitions' = WithHeader(set_memory_address(TheHeader, value))
  /\ outcome' = Returned("memory_address", [value |-> value])
  /\ edits' = edits + 1
  /\ UNCHANGED contents

NextHeader ==
  \/ decode
  \/ encode
  \/ \E value \in HeaderNames : assign_name(value)
  \/ \E value \in HeaderAddresses : assign_memory_address(value)

SpecHeader == InitHeader /\ [][NextHeader]_vars

-----------------------------------------------------------------------------
(* Loading images that hold a partition named lk or LK, with or without    *)
(* the load address pattern in the payloads                                *)

\* 'LK', the address 0xFFFFFFFF, and a payload made of the pattern, 4 bytes
\* and a little-endian address
Str_LK == <<76, 75>>
Sentinel == <<255, 255, 255, 255>> \o LE32(0)
LoadPattern(address) == LOADADDR \o LE32(0) \o address
LoadPayloads ==
  {<<201>>, LoadPattern(<<0, 0, 64, 76>>), LoadPattern(<<1, 2, 3, 4>>)}

\* a partition as add_partition creates it, with a legacy header
LoadItem(name, data, address) ==
  Item(name, LkPartition(create_header(name, Len(data), address, 0, "None", 8),
                         data, 0, <<>>, None))

\* the images that are loaded: 'a' and lk, in both orders
LoadBuffers ==
  { rebuild_contents(
      IF lk_first
        THEN <<LoadItem(lk_name, lk_data, lk_addr),
               LoadItem(Str_a, a_data, Addr(0, 5))>>
        ELSE <<LoadItem(Str_a, a_data, Addr(0, 5)),
               LoadItem(lk_name, lk_data, lk_addr)>>,
      <<>>).contents :
      lk_first \in BOOLEAN, lk_name \in {Str_lk, Str_LK},
      lk_data \in LoadPayloads, a_data \in LoadPayloads,
      lk_addr \in {Sentinel, Addr(0, 5)} }

LoadNames == {Str_a, Str_lk, Str_LK}

\* LkImage(source) for a source of LoadBuffers
InitLoad ==
  \E source \in LoadBuffers :
    /\ parse_partitions(source).raised = "none"
    /\ contents = source
    /\ partitions = parse_partitions(source).partitions
    /\ outcome = Returned("LkImage", <<>>)
    /\ edits = 0
    /\ version = detect_version(partitions)

\* image = LkImage(bytes(image.contents)): the contents are parsed again
load ==
  LET r == parse_partitions(contents)
  IN IF r.raised = "none"
       THEN /\ partitions' = r.partitions
            /\ version' = detect_version(r.partitions)
            /\ outcome' = Returned("LkImage", <<>>)
            /\ UNCHANGED <<contents, edits>>
       ELSE /\ outcome' = Raised("LkImage", r.raised)
            /\ UNCHANGED <<contents, partitions, edits, version>>

NextLoad ==
  \/ load
  \/ \E name \in LoadNames : remove_partition(name)
  \/ rebuild

SpecLoad == InitLoad /\ [][NextLoad]_vars

-----------------------------------------------------------------------------
(* Images with and without the partitions that mark version 2 *)

\* 'AEE'
Str_AEE == <<65, 69, 69>>

VersionNames == {Str_a, Str_aee, Str_bl2_ext, Str_AEE}

\* the images that are loaded: none, one or two partitions of VersionNames,
\* in every order, a single one with either of two payloads
VersionBuffers ==
  {<<>>}
  \cup { rebuild_contents(<<LoadItem(n1, d1, Addr(0, 5))>>, <<>>).contents :
           n1 \in VersionNames, d1 \in {<<201>>, <<202, 201>>} }
  \cup { rebuild_contents(<<LoadItem(n[1], <<202, 201>>, Addr(1, 1)),
                            LoadItem(n[2], <<201>>, Addr(0, 5))>>,
                          <<>>).contents :
           n \in {m \in VersionNames \X VersionNames : m[1] # m[2]} }

\* the calls of add_partition on these images
VersionCalls ==
  { AddCall(name, <<201>>, Addr(0, 5), "None", 8) :
      name \in {Str_aee, Str_bl2_ext} }

\* LkImage(source) for a source of VersionBuffers
InitVersion ==
  \E source \in VersionBuffers :
    /\ parse_partitions(source).raised = "none"
    /\ contents = source
    /\ partitions = parse_partitions(source).partitions
    /\ outcome = Returned("LkImage", <<>>)
    /\ edits = 0
    /\ version = detect_version(partitions)

NextVersion ==
  \/ \E c \in VersionCalls :
       add_partition(c.name, c.data, c.memory_address, c.use_extended,
                     c.alignment, None)
  \/ \E name \in VersionNames : remove_partition(name)
  \/ \E cert_data \in CertPayloads :
       add_certificate(Str_AEE, cert_data, Str_cert1)
  \/ rebuild
  \/ load

SpecVersion == InitVersion /\ [][NextVersion]_vars

-----------------------------------------------------------------------------
(* The parser, one iteration of its loop at a time.  While the constructor *)
(* runs, outcome holds the position of _parse_partitions: the offset, the  *)
(* last_name and the iterations done.                                      *)

\* a header with the magic, given by its fields
ParseHeader(name, ext_magic, hdr_size, dsize, alignment, flag) ==
  [set_name([NewHeader EXCEPT !.magic = LE32(MAGIC)], name)
     EXCEPT !.dsize = LE32(dsize), !.ext_magic = LE32(ext_magic),
            !.hdr_size = LE32(hdr_size), !.hdr_version = LE32(1),
            !.alignment = LE32(alignment), !.image_list_end = LE32(flag)]

\* an extended 'lk' with a payload of 8 bytes, and a legacy 'b' with none
LkUnit ==
  HeaderBytes(ParseHeader(Str_lk, EXT_MAGIC, 512, 8, 8, 0))
  \o <<201, 202, 203, 204, 205, 206, 207, 208>>
Str_b == <<98>>
LastUnit == HeaderBytes(ParseHeader(Str_b, 0, 0, 0, 0, 0))

\* buffers whose second unit has every combination of name (partition or
\* certificate), format, header_size, data_size, alignment and list-end flag
SizeBuffers ==
  { LkUnit
    \o HeaderBytes(ParseHeader(name, ext_magic, hdr_size, dsize, alignment,
                               flag))
    \o <<211, 212, 213, 214, 215, 216, 217, 218>> \o LastUnit :
      name \in {Str_a, Str_cert1}, ext_magic \in {EXT_MAGIC, 0},
      hdr_size \in {0, 512}, dsize \in {0, 8}, alignment \in {0, 8},
      flag \in {0, 2} }

\* an extended certificate with no payload, a legacy 'a' with a payload of 8
\* bytes, and what is not a header: 512 bytes with another magic, the magic
\* followed by 3 bytes, and 3 bytes
CertUnit == HeaderBytes(ParseHeader(Str_cert1, EXT_MAGIC, 512, 0, 8, 0))
LegacyUnit ==
  HeaderBytes(ParseHeader(Str_a, 0, 0, 8, 0, 0))
  \o <<221, 222, 223, 224, 225, 226, 227, 228>>
BadMagic == <<120, 86, 52, 18>>
Garbage ==
  { HeaderBytes([ParseHeader(Str_b, EXT_MAGIC, 512, 0, 8, 0)
                   EXCEPT !.magic = BadMagic]),
    LE32(MAGIC) \o <<1, 1, 1>>,
    <<1, 2, 3>> }

\* buffers that end in garbage, after no unit, after extended units and after
\* a legacy unit
GarbageBuffers ==
  { prefix \o garbage :
      prefix \in {<<>>, LkUnit, LkUnit \o CertUnit, LegacyUnit,
                  LkUnit \o LegacyUnit},
      garbage \in Garbage }

\* buffers whose first unit is 'lk', legacy or extended, with image_list_end
\* 0, 1 or 2, followed by nothing, by more units or by garbage
StopBuffers ==
  { HeaderBytes(ParseHeader(Str_lk, ext_magic, 512, 8, 8, flag))
    \o <<201, 202, 203, 204, 205, 206, 207, 208>> \o tail :
      ext_magic \in {EXT_MAGIC, 0}, flag \in {0, 1, 2},
      tail \in {<<>>, LastUnit, CertUnit \o LastUnit} \cup Garbage }

\* 'Cert1', and an extended unit without payload under a given name
Str_Cert1 == <<67, 101, 114, 116, 49>>
UnitOf(name) == HeaderBytes(ParseHeader(name, EXT_MAGIC, 512, 0, 8, 0))

\* buffers of one, two or three such units, under every sequence of the
\* names 'lk', 'a', 'cert1', 'cert2' and 'Cert1'
StreamNames == {Str_lk, Str_a, Str_cert1, Str_cert2, Str_Cert1}
NameBuffers ==
  { UnitOf(n1) : n1 \in StreamNames }
  \cup { UnitOf(n1) \o UnitOf(n2) : n1 \in StreamNames, n2 \in StreamNames }
  \cup { UnitOf(n1) \o UnitOf(n2) \o UnitOf(n3) :
           n1 \in StreamNames, n2 \in StreamNames, n3 \in StreamNames }

\* 0x4040 bytes that start with 'BFBF', zero but for `data` at 512
ShiftWindow(data) ==
  BFBF \o Zeros(508) \o data \o Zeros(16448 - 512 - Len(data))

\* buffers with such a window at offset 0 and behind a first partition 'lk':
\* followed by a header, by nothing, or cut short
ShiftBuffers ==
  { ShiftWindow(data) \o HeaderBytes(ParseHeader(Str_lk, EXT_MAGIC, 512, 8, 8, 0))
      : data \in {<<>>, <<201, 202, 203, 204, 205, 206, 207, 208>>} }
  \cup { LkUnit \o ShiftWindow(<<>>) \o tail :
           tail \in {<<>>, UnitOf(Str_b), UnitOf(Str_cert1)} }
  \cup { LkUnit \o BFBF \o Zeros(508) }

ParseBuffers ==
  SizeBuffers \cup GarbageBuffers \cup StopBuffers \cup NameBuffers
  \cup ShiftBuffers

Parsing(offset, last_name, iterations) ==
  [op |-> "_parse_partitions", raised |-> "running",
   args |-> [offset |-> offset, last_name |-> last_name,
             iterations |-> iterations]]

\* LkImage(source), up to the call of _parse_partitions
InitParse ==
  /\ contents \in ParseBuffers
  /\ partitions = <<>>
  /\ version = 1
  /\ outcome = Parsing(0, <<>>, 0)
  /\ edits = 0

\* what the constructor has reached after an iteration with result r: the
\* mapping, the position in the loop or the way the constructor ended, and
\* the version, which _detect_version sets when the loop is left
parse_outcome(r, iterations) ==
  [partitions |-> r.partitions,
   outcome |->
     IF r.raised = "unfinished"
       THEN Parsing(r.offset, r.last_name, iterations + 1)
     ELSE IF r.raised = "none" THEN Returned("LkImage", <<>>)
     ELSE [op |-> "LkImage", raised |-> r.raised, args |-> r.message],
   version |->
     IF r.raised = "none" THEN detect_version(r.partitions) ELSE version]

\* one test of the while condition and, when it holds, one iteration of the
\* loop of _parse_partitions; when the loop is left, _detect_version
parse_step ==
  /\ outcome.op = "_parse_partitions"
  /\ outcome.args.iterations < MaxParseIter
  /\ LET s == parse_outcome(
                parse_loop(contents, outcome.args.offset, partitions,
                           outcome.args.last_name, 1),
                outcome.args.iterations)
     IN /\ partitions' = s.partitions
        /\ outcome' = s.outcome
        /\ version' = s.version
  /\ UNCHANGED <<contents, edits>>

NextParse == parse_step

SpecParse == InitParse /\ [][NextParse]_vars

\* C1: round trip.  An image built only through add_partition and
\* add_certificate and then rebuilt parses, from its rebuilt bytes, to the
\* same names in the same order, the same payloads and the same certificates
\* on the same owners.
C1_RoundTrip ==
  (outcome.raised = "none" /\ outcome.op \in {"rebuild", "add_partition"}) =>
    LET r == parse_partitions(contents)
    IN /\ r.raised = "none"
       /\ SameStructure(r.partitions, partitions)

C3_DataSizeInvariant ==
  \A i \in 1..Len(Units(partitions)) :
    Len(Units(partitions)[i].data) = data_size(Units(partitions)[i].header)

\* C4: when add_partition, remove_partition or apply_patch raises, the
\* mapping holds the same names in the same order as before the call.
C4_ErrorsKeepMapping ==
  [][(outcome'.raised # "none"
      /\ outcome'.op \in {"add_partition", "remove_partition", "apply_patch"})
     => Keys(partitions') = Keys(partitions)]_vars


\* the bytes of a buffer after the slice assignment of apply_patch, byte by
\* byte: patch is written over the window [i, i + len(patch)), the buffer
\* ending where the longer of the two ends
Overwritten(old, i, patch) ==
  [k \in 1..Max(Len(old), i + Len(patch)) |->
     IF k > i /\ k <= i + Len(patch) THEN patch[k - i] ELSE old[k]]

C7_AddPartitionStores ==
  (outcome.op = "add_partition" /\ outcome.raised = "none") =>
    /\ HasKey(partitions, outcome.args.name)
    /\ \A k \in 1..Len(partitions) :
         partitions[k].name = outcome.args.name =>
           LET h == partitions[k].part.header
           IN /\ partitions[k].part.data = outcome.args.data
              /\ data_size(h) = Len(outcome.args.data)
              /\ is_extended(h) => memory_address(h) = outcome.args.address
              /\ outcome.args.use_extended = "None" =>
                   (is_extended(h) <=>
                      \/ (Len(outcome.args.data) \div 65536) \div 65536 > 0
                      \/ High32(outcome.args.address) # LE32(0))

\* the zero bytes that bring n up to a multiple of alignment; none when
\* alignment is 0
PadTo(n, alignment) ==
  IF alignment = 0 THEN 0
  ELSE CHOOSE d \in 0..(alignment - 1) : (n + d) % alignment = 0

\* the length of a serialized unit: header, payload, padding
UnitLen(p) ==
  HeaderSize + Len(p.data)
  + PadTo(Len(p.data),
          IF is_extended(p.header) THEN U32(p.header.alignment) ELSE 8)

\* the offset at which the i-th unit starts
RECURSIVE UnitStart(_, _)
UnitStart(u, i) ==
  IF i = 1 THEN 0 ELSE UnitStart(u, i - 1) + UnitLen(u[i - 1])

\* the last call serialized the whole mapping without an error
Serialized ==
  \/ Rebuilt
  \/ /\ outcome.op = "apply_patch"
     /\ outcome.raised = "none"
     /\ outcome.args.partition # None

\* C8: after a successful rebuild contents is, unit after unit in mapping
\* order (a partition, then its certificates), the 512 header bytes, the
\* payload and zero bytes up to a multiple of the effective alignment; each
\* partition's end_offset is the length after it and its certificates, so
\* the end_offsets strictly increase and the last one is len(contents); with
\* no partitions contents is empty.
C8_Layout ==
  Serialized =>
    LET u == Units(partitions)
        n == Len(partitions)
    IN /\ Len(contents) = UnitStart(u, Len(u) + 1)
       /\ \A i \in 1..Len(u) :
            LET at == UnitStart(u, i)
            IN /\ SubSeq(contents, at + 1, at + HeaderSize)
                    = HeaderBytes(u[i].header)
               /\ SubSeq(contents, at + HeaderSize + 1,
                         at + HeaderSize + Len(u[i].data)) = u[i].data
               /\ \A k \in (at + HeaderSize + Len(u[i].data) + 1)
                           ..(at + UnitLen(u[i])) : contents[k] = 0
       /\ \A k \in 1..n :
            partitions[k].part.end_offset =
              UnitStart(u, Len(Units(SubSeq(partitions, 1, k))) + 1)
       /\ \A k \in 1..(n - 1) :
            partitions[k].part.end_offset < partitions[k + 1].part.end_offset
       /\ n > 0 => partitions[n].part.end_offset = Len(contents)
       /\ n = 0 => contents = <<>>

\* C8 witness: a rebuild of two partitions, the extended one with a payload
\* that needs padding and a certificate after it
C8_Witness ==
  /\ Serialized
  /\ Len(partitions) = 2
  /\ \E k \in 1..2 :
       /\ is_extended(partitions[k].part.header)
       /\ U32(partitions[k].part.header.alignment) = 16
       /\ partitions[k].part.certs # <<>>

\* C9: a rebuild that follows a rebuild of the same mapping changes nothing:
\* the same contents, the same flags on every header, the same end_offsets.
C9_RebuildIdempotent ==
  LET first == rebuild_contents(partitions, contents)
  IN first.raised = "none" =>
       rebuild_contents(first.partitions, first.contents) = first

\* C9 witness: a rebuild has run on two partitions and a certificate
C9_Witness ==
  /\ outcome.op = "rebuild"
  /\ outcome.raised = "none"
  /\ Len(partitions) = 2
  /\ CertCount(partitions) > 0

\* C10: a partition-targeted apply_patch, whether it returns or raises,
\* leaves the payload, the data_size and the certificates of every other
\* partition as they were.
C10_PatchIsolation ==
  [][\A c \in PatchCalls, name \in Names :
       (outcome'.op = "apply_patch" /\ apply_patch(c[1], c[2], Some(name))) =>
         /\ Keys(partitions') = Keys(partitions)
         /\ \A k \in 1..Len(partitions) :
              partitions[k].name # name =>
                /\ partitions'[k].part.data = partitions[k].part.data
                /\ data_size(partitions'[k].part.header)
                     = data_size(partitions[k].part.header)
                /\ CertList(partitions'[k].part.certs)
                     = CertList(partitions[k].part.certs)]_vars

\* C10 witness: 'a' has been patched next to 'lk', which carries a
\* certificate
C10_Witness ==
  /\ outcome.op = "apply_patch"
  /\ outcome.raised = "none"
  /\ outcome.args.partition = Some(Str_a)
  /\ \E k \in 1..Len(partitions) :
       /\ partitions[k].name = Str_lk
       /\ partitions[k].part.certs # <<>>


\* C11: a partition-targeted apply_patch whose needle does not occur in the
\* payload of that partition raises NeedleNotFoundException and leaves the
\* mapping (so the payload and the data_size) and the contents unchanged,
\* also when the needle occurs elsewhere in the image.
C11_NeedleAbsentChangesNothing ==
  [][\A c \in PatchCalls, name \in Names :
       (outcome'.op = "apply_patch" /\ apply_patch(c[1], c[2], Some(name))) =>
         \A k \in 1..Len(partitions) :
           (partitions[k].name = name
            /\ Find(partitions[k].part.data, c[1]) = -1) =>
             /\ outcome'.raised = "NeedleNotFoundException"
             /\ partitions' = partitions
             /\ contents' = contents]_vars

\* C11 witness: the patch of 'a', whose payload c9 lacks the needle ca c9
\* that the payload of 'lk' and the contents hold, has raised
C11_Witness ==
  /\ outcome.op = "apply_patch"
  /\ outcome.raised = "NeedleNotFoundException"
  /\ edits < MaxEdits
  /\ Len(partitions) = 2
  /\ \E k \in 1..2 : /\ partitions[k].name = Str_a
                     /\ partitions[k].part.data = <<201>>
  /\ \E k \in 1..2 : /\ partitions[k].name = Str_lk
                     /\ partitions[k].part.data = <<201, 202, 201>>
  /\ Find(contents, <<202, 201>>) # -1


\* C12: add_partition with a name already present in the mapping raises the
\* duplicate-name error and leaves the number of partitions, their order,
\* their payloads and the image contents unchanged.
C12_DuplicateAddChangesNothing ==
  [][\A c \in BuiltCalls, position \in Positions :
       (/\ outcome'.op = "add_partition"
        /\ add_partition(c.name, c.data, c.memory_address, c.use_extended,
                         c.alignment, position)
        /\ \E k \in 1..Len(partitions) : partitions[k].name = c.name) =>
         /\ outcome'.raised = "ValueError: already exists"
         /\ Len(partitions') = Len(partitions)
         /\ Keys(partitions') = Keys(partitions)
         /\ \A k \in 1..Len(partitions) :
              partitions'[k].part.data = partitions[k].part.data
         /\ partitions' = partitions
         /\ contents' = contents]_vars

\* a duplicate add_partition was refused on an image of two partitions, one
\* of them carrying a certificate
C12_Witness ==
  /\ outcome.op = "add_partition"
  /\ outcome.raised = "ValueError: already exists"
  /\ Len(partitions) = 2
  /\ \E k \in 1..2 : Len(partitions[k].part.certs) = 1
  /\ Len(contents) > 2 * HeaderSize


\* C13: remove_partition with a name absent from the mapping raises the
\* partition-not-found error (KeyError) and leaves the number of partitions,
\* their order and the image contents unchanged; apply_patch raises the same
\* error when the partition it names does not exist.
C13_AbsentNameRaisesKeyError ==
  [][/\ \A name \in Names :
          (/\ outcome'.op = "remove_partition"
           /\ remove_partition(name)
           /\ \A k \in 1..Len(partitions) : partitions[k].name # name) =>
            /\ outcome'.raised = "KeyError"
            /\ Len(partitions') = Len(partitions)
            /\ Keys(partitions') = Keys(partitions)
            /\ contents' = contents
     /\ \A c \in PatchCalls, name \in Names :
          (/\ outcome'.op = "apply_patch"
           /\ apply_patch(c[1], c[2], Some(name))
           /\ \A k \in 1..Len(partitions) : partitions[k].name # name) =>
            outcome'.raised = "KeyError"]_vars

\* a call on an absent name was refused on an image that is not empty and has
\* not been rebuilt since a certificate was added, so that a rebuild would
\* have changed the contents
C13_Witness ==
  /\ outcome.op \in {"remove_partition", "apply_patch"}
  /\ outcome.raised = "KeyError"
  /\ Len(partitions) = 1
  /\ Len(partitions[1].part.certs) = 1
  /\ rebuild_contents(partitions, contents).contents # contents


\* C14: add_partition with a name longer than 32 bytes raises the
\* name-too-long error and performs no mutation (partition mapping and
\* contents unchanged); a name of exactly 32 bytes is accepted and is read
\* back unchanged from the header, and it fills the name field of the header
\* written to the contents.
C14_NameLength ==
  [][\A c \in BuiltCalls, position \in Positions :
       (/\ outcome'.op = "add_partition"
        /\ add_partition(c.name, c.data, c.memory_address, c.use_extended,
                         c.alignment, position)
        /\ \A k \in 1..Len(partitions) : partitions[k].name # c.name) =>
         /\ Len(c.name) > 32 =>
              /\ outcome'.raised = "ValueError: name too long"
              /\ partitions' = partitions
              /\ contents' = contents
         /\ Len(c.name) = 32 =>
              /\ outcome'.raised = "none"
              /\ Len(partitions') = Len(partitions) + 1
              /\ \E k \in 1..Len(partitions') :
                   /\ partitions'[k].name = c.name
                   /\ header_name(partitions'[k].part.header) = c.name
                   /\ k = Len(partitions') =>
                        SubSeq(contents',
                               Len(contents') - UnitLen(partitions'[k].part)
                                 + 9,
                               Len(contents') - UnitLen(partitions'[k].part)
                                 + 40) = c.name]_vars

\* an add_partition with a name of 33 characters was refused on an image that
\* holds a partition added under a name of 32 characters
C14_Witness ==
  /\ outcome.op = "add_partition"
  /\ outcome.raised = "ValueError: name too long"
  /\ \E k \in 1..Len(partitions) :
       /\ partitions[k].name = Name32
       /\ Len(header_name(partitions[k].part.header)) = 32
  /\ Len(contents) >= HeaderSize


\* a list of names without the name given
RECURSIVE Without(_, _)
Without(names, name) ==
  IF names = <<>> THEN <<>>
  ELSE IF Head(names) = name THEN Without(Tail(names), name)
  ELSE <<Head(names)>> \o Without(Tail(names), name)

\* C15: add_partition with position p, 0 <= p <= n on an image of n
\* partitions, yields the name order old[0..p), name, old[p..n); with position
\* unspecified the new name is last; removing a name leaves the other names
\* in their order, so that removing the added name restores exactly the
\* original name order.  The relative order of the pre-existing partitions
\* never changes.
C15_InsertionOrder ==
  [][/\ \A c \in BuiltCalls, position \in OrderPositions :
          (/\ outcome'.op = "add_partition"
           /\ add_partition(c.name, c.data, c.memory_address, c.use_extended,
                            c.alignment, position)
           /\ \A k \in 1..Len(partitions) : partitions[k].name # c.name
           /\ Len(c.name) <= 32
           /\ position # None => position[1] <= Len(partitions)) =>
            LET old == Keys(partitions)
                n == Len(partitions)
                p == IF position = None THEN n ELSE position[1]
            IN /\ Keys(partitions') =
                    SubSeq(old, 1, p) \o <<c.name>> \o SubSeq(old, p + 1, n)
               /\ position = None => Keys(partitions')[n + 1] = c.name
               /\ Without(Keys(partitions'), c.name) = old
     /\ \A name \in BuiltNames :
          (/\ outcome'.op = "remove_partition"
           /\ remove_partition(name)
           /\ \E k \in 1..Len(partitions) : partitions[k].name = name) =>
            /\ Keys(partitions') = Without(Keys(partitions), name)
            /\ Len(partitions') = Len(partitions) - 1]_vars

\* a partition was inserted between two others
C15_Witness ==
  /\ outcome.op = "add_partition"
  /\ outcome.raised = "none"
  /\ outcome.args.position = Some(1)
  /\ Len(partitions) = 3
  /\ partitions[2].name = outcome.args.name


\* C16: add_certificate(data, type) with type in {cert1, cert2} appends, at
\* the end of the owner's certificate list, a certificate whose name is type
\* itself when the owner is named lk and '<type>_<ownerName>' otherwise,
\* whose payload is data, and whose header has the same extended-format flag
\* and the same alignment as the owner; any other type raises the
\* invalid-certificate-type error and leaves the certificate list unchanged.
C16_AddCertificate ==
  [][\A owner \in BuiltNames, cert_data \in CertPayloads,
        cert_type \in CertTypes :
       (/\ outcome'.op = "add_certificate"
        /\ add_certificate(owner, cert_data, cert_type)) =>
         \A k \in 1..Len(partitions) :
           partitions[k].name = owner =>
             LET p == partitions[k].part
                 certs == partitions'[k].part.certs
                 cert == certs[Len(certs)]
             IN IF cert_type \in {Str_cert1, Str_cert2}
                  THEN /\ outcome'.raised = "none"
                       /\ Len(certs) = Len(p.certs) + 1
                       /\ SubSeq(certs, 1, Len(p.certs)) = p.certs
                       /\ header_name(cert.header) =
                            IF header_name(p.header) = Str_lk THEN cert_type
                            ELSE cert_type \o Str_underscore
                                 \o header_name(p.header)
                       /\ cert.data = cert_data
                       /\ is_extended(cert.header) = is_extended(p.header)
                       /\ effective_alignment(cert.header) =
                            effective_alignment(p.header)
                  ELSE /\ outcome'.raised =
                            "ValueError: invalid certificate type"
                       /\ certs = p.certs]_vars


\* C17: add_certificate changes only the owner's certificate list: the image
\* contents buffer, the image_list_end flag of every existing header and
\* every end_offset are the same after the call as before; the new
\* certificate has no list-end flag and its bytes are not in the contents,
\* which are shorter than the serialized mapping until rebuild is invoked.
C17_AddCertificateFrame ==
  [][\A owner \in BuiltNames, cert_data \in CertPayloads,
        cert_type \in CertTypes :
       (/\ outcome'.op = "add_certificate"
        /\ outcome'.raised = "none"
        /\ add_certificate(owner, cert_data, cert_type)) =>
         /\ contents' = contents
         /\ Keys(partitions') = Keys(partitions)
         /\ \A k \in 1..Len(partitions) :
              LET p == partitions[k].part
                  q == partitions'[k].part
              IN /\ q.header = p.header
                 /\ q.data = p.data
                 /\ q.end_offset = p.end_offset
                 /\ q.lk_address = p.lk_address
                 /\ IF partitions[k].name = owner
                      THEN /\ Len(q.certs) = Len(p.certs) + 1
                           /\ SubSeq(q.certs, 1, Len(p.certs)) = p.certs
                           /\ q.certs[Len(q.certs)].header.image_list_end =
                                LE32(0)
                      ELSE q.certs = p.certs
         /\ Len(contents') <
              Len(rebuild_loop(set_list_end_flags(partitions'), 1,
                               <<>>).contents)]_vars

\* a certificate was added to the last partition of a rebuilt image of two
\* partitions: the owner's header still has the list-end flag and the
\* contents still end at the owner's end_offset
C17_Witness ==
  /\ outcome.op = "add_certificate"
  /\ outcome.raised = "none"
  /\ Len(partitions) = 2
  /\ Len(partitions[2].part.certs) = 1
  /\ partitions[2].part.header.image_list_end = LE32(1)
  /\ partitions[2].part.end_offset = Len(contents)


\* C18 as stated: a partition-targeted apply_patch updates only that
\* partition's payload and header data_size and does not rebuild: the image
\* contents buffer and every partition's end_offset are the same after the
\* call as before.
C18_TargetedPatchDoesNotRebuild ==
  [][(/\ outcome'.op = "apply_patch"
      /\ outcome'.raised = "none"
      /\ outcome'.args.partition # None
      /\ edits' = edits + 1) =>
       /\ contents' = contents
       /\ \A k \in 1..Len(partitions) :
            partitions'[k].part.end_offset = partitions[k].part.end_offset]_vars

\* C18: a partition-targeted apply_patch updates only that partition's
\* payload and header data_size, and then rebuilds: the other partitions keep
\* their payloads, data_sizes and certificates, the contents are the
\* serialization of the patched mapping and every end_offset is the one the
\* rebuild computes.
C18_TargetedPatchRebuilds ==
  [][(/\ outcome'.op = "apply_patch"
      /\ outcome'.raised = "none"
      /\ outcome'.args.partition # None
      /\ edits' = edits + 1) =>
       LET name == outcome'.args.partition[1]
           needle == outcome'.args.needle
           patch == outcome'.args.patch
           r == rebuild_loop(set_list_end_flags(partitions'), 1, <<>>)
       IN /\ Keys(partitions') = Keys(partitions)
          /\ \A k \in 1..Len(partitions) :
               LET p == partitions[k].part
                   q == partitions'[k].part
               IN /\ CertList(q.certs) = CertList(p.certs)
                  /\ [q.header EXCEPT !.dsize = <<>>, !.dsize_extend = <<>>,
                                      !.image_list_end = <<>>] =
                     [p.header EXCEPT !.dsize = <<>>, !.dsize_extend = <<>>,
                                      !.image_list_end = <<>>]
                  /\ data_size(q.header) = Len(q.data)
                  /\ IF partitions[k].name = name
                       THEN q.data = SliceAssign(p.data, Find(p.data, needle),
                                                 patch)
                       ELSE q.data = p.data
          /\ r.raised = "none"
          /\ contents' = r.contents
          /\ partitions' = r.partitions
          /\ partitions'[Len(partitions')].part.end_offset = Len(contents')]_vars

\* a patch longer than its needle was applied to the first of two partitions
\* and the contents hold the patched payload
C18_Witness ==
  /\ outcome.op = "apply_patch"
  /\ outcome.raised = "none"
  /\ outcome.args.partition # None
  /\ Len(outcome.args.patch) > Len(outcome.args.needle)
  /\ Len(partitions) = 2
  /\ partitions[1].name = outcome.args.partition[1]
  /\ Find(partitions[1].part.data, outcome.args.patch) # -1
  /\ SubSeq(contents, HeaderSize + 1, HeaderSize + Len(partitions[1].part.data))
       = partitions[1].part.data


\* C19: header codec.  Decoding any 512-byte block into a header and
\* re-encoding it yields the identical 512 bytes; the effective data_size and
\* load address are the low 32-bit field alone when ext_magic # EXT_MAGIC and
\* (high << 32) | low when ext_magic = EXT_MAGIC (low 0xDEADBEEF with high
\* 0xBEEFDEED gives 0xBEEFDEEDDEADBEEF); a name set on a header is read back
\* unchanged after encode and decode.
C19_HeaderCodec ==
  [][/\ outcome'.op = "from_buffer_copy" =>
          LET b == contents'
              h == partitions'[1].part.header
              ext == SubSeq(b, 49, 52) = <<137, 22, 137, 88>>
          IN /\ memory_address(h) =
                  IF ext THEN SubSeq(b, 41, 44) \o SubSeq(b, 77, 80)
                  ELSE SubSeq(b, 41, 44) \o <<0, 0, 0, 0>>
             /\ data_size_wide(h) =
                  IF ext THEN SubSeq(b, 5, 8) \o SubSeq(b, 73, 76)
                  ELSE SubSeq(b, 5, 8) \o <<0, 0, 0, 0>>
             /\ (~ext \/ SubSeq(b, 73, 76) = <<0, 0, 0, 0>>) =>
                  data_size(h) = U32(SubSeq(b, 5, 8))
             /\ (ext /\ SubSeq(b, 41, 44) = DEADBEEF
                     /\ SubSeq(b, 77, 80) = BEEFDEED) =>
                  memory_address(h) =
                    <<239, 190, 173, 222, 237, 222, 239, 190>>
     /\ (outcome.op = "from_buffer_copy" /\ outcome'.op = "bytes") =>
          /\ Len(contents') = 512
          /\ contents' = contents
     /\ (outcome.op = "name" /\ outcome.raised = "none"
         /\ outcome'.op = "bytes") =>
          /\ header_name(from_buffer_copy(contents')) = outcome.args.value
          /\ SubSeq(contents', 9, 8 + Len(outcome.args.value)) =
               outcome.args.value]_vars

\* the block of the header test (extended, low address 0xDEADBEEF, high
\* address 0xBEEFDEED, data_size 8, name 'test') was decoded and encoded
\* again
C19_Witness ==
  /\ outcome.op = "bytes"
  /\ edits = 0
  /\ SubSeq(contents, 49, 52) = LE32(EXT_MAGIC)
  /\ SubSeq(contents, 41, 44) = DEADBEEF
  /\ SubSeq(contents, 77, 80) = BEEFDEED
  /\ SubSeq(contents, 9, 13) = Str_test \o <<0>>
  /\ data_size(TheHeader) = 8
  /\ memory_address(TheHeader) = DEADBEEF \o BEEFDEED


\* C20: for the partition named lk (compared case-insensitively) whose
\* header load address is the sentinel 0xFFFFFFFF, the resolved lk_address
\* is the 4-byte little-endian value located 8 bytes after the start of the
\* first occurrence of the pattern 10 FF 2F E1 in the entire image buffer,
\* wherever the lk partition sits in the image; if the pattern does not
\* occur, lk_address stays the sentinel.  Partitions with any other name
\* have no lk_address.
C20_LkAddress ==
  (outcome.op = "LkImage" /\ outcome.raised = "none") =>
    \A k \in 1..Len(partitions) :
      LET p == partitions[k].part
          index == Find(contents, LOADADDR)
      IN IF Lower(partitions[k].name) = Str_lk
           THEN Low32(memory_address(p.header)) = <<255, 255, 255, 255>> =>
                  p.lk_address =
                    IF index # -1
                      THEN Some(SubSeq(contents, index + 9, index + 12)
                                \o <<0, 0, 0, 0>>)
                      ELSE Some(<<255, 255, 255, 255, 0, 0, 0, 0>>)
         ELSE p.lk_address = None


\* C21: after construction, image.version is 2 if the parsed partition
\* mapping contains a partition named aee or bl2_ext and 1 otherwise; it
\* depends on nothing else (not on certificate names, payloads, header
\* fields or partition order).
C21_VersionFromNames ==
  (outcome.op = "LkImage" /\ outcome.raised = "none") =>
    version = IF \E k \in 1..Len(partitions) :
                   \/ partitions[k].name = <<97, 101, 101>>
                   \/ partitions[k].name = <<98, 108, 50, 95, 101, 120, 116>>
                THEN 2 ELSE 1

\* an image was constructed whose second partition is bl2_ext, behind a
\* partition that carries a certificate and is named neither aee nor bl2_ext
C21_Witness ==
  /\ outcome.op = "LkImage"
  /\ outcome.raised = "none"
  /\ Len(partitions) = 2
  /\ partitions[1].name = Str_AEE
  /\ Len(partitions[1].part.certs) = 1
  /\ partitions[2].name = Str_bl2_ext
  /\ version = 2


\* C30: image.version is computed once, at construction: add_partition and
\* remove_partition never change it, so after adding a partition named aee
\* or bl2_ext to a version-1 image the version is still 1, and after removing
\* every such partition from a version-2 image the version is still 2.
C30_VersionKeptByEdits ==
  [][outcome'.op \in {"add_partition", "remove_partition"} =>
       /\ version' = version
       /\ (/\ outcome'.op = "add_partition"
           /\ outcome'.raised = "none"
           /\ version = 1) => version' = 1
       /\ (/\ outcome'.op = "remove_partition"
           /\ outcome'.raised = "none"
           /\ version = 2) => version' = 2]_vars

\* the last partition named aee or bl2_ext was removed from a version-2
\* image, which is still of version 2
C30_Witness ==
  /\ outcome.op = "remove_partition"
  /\ outcome.raised = "none"
  /\ outcome.args.name \in {Str_aee, Str_bl2_ext}
  /\ partitions # <<>>
  /\ \A k \in 1..Len(partitions) :
       partitions[k].name \notin {Str_aee, Str_bl2_ext}
  /\ version = 2


\* C22: parsing any finite byte buffer terminates: every parser loop
\* iteration that does not stop the parse moves the read offset strictly
\* forward (next offset > current offset), for every possible header content
\* - legacy or extended, any header_size, data_size and alignment values,
\* partition or certificate name.
C22_ParserAdvances ==
  [][(outcome.op = "_parse_partitions" /\ outcome'.op = "_parse_partitions")
       => outcome'.args.offset > outcome.args.offset]_vars


\* C23: parser and serializer agree on the byte extent of every unit: for
\* every partition or certificate that rebuild writes at start offset s, the
\* parser reading at s takes the payload that was written and computes as
\* next-unit offset exactly the offset at which rebuild wrote the next unit.
C23_ExtentsAgree ==
  (outcome.raised = "none" /\ outcome.op \in {"rebuild", "add_partition"}) =>
    LET u == Units(partitions)
    IN \A i \in 1..Len(u) :
         LET s == UnitStart(u, i)
             r == from_bytes(SliceFrom(contents, s), s)
         IN /\ ~r.raised
            /\ r.part.data = u[i].data
            /\ r.part.end_offset = UnitStart(u, i + 1)


C25_StopConditions ==
  [][LET o == outcome.args.offset
         ext == SubSeq(contents, o + 49, o + 52) = <<137, 22, 137, 88>>
         flag == SubSeq(contents, o + 65, o + 68)
         next == from_bytes(SliceFrom(contents, o), o).part.end_offset
         stopped == outcome' = Returned("LkImage", <<>>)
     IN (/\ outcome.op = "_parse_partitions"
         /\ Len(contents) - o >= 512
         /\ SubSeq(contents, o + 1, o + 4) = <<136, 22, 136, 88>>
         /\ outcome'.raised # "InvalidLkPartition") =>
          /\ Len(Units(partitions')) = Len(Units(partitions)) + 1
          /\ \E i \in 1..Len(Units(partitions')) :
               HeaderBytes(Units(partitions')[i].header) =
                 SubSeq(contents, o + 1, o + 512)
          /\ (ext /\ flag = <<1, 0, 0, 0>>) => stopped
          /\ (~ext \/ flag \notin {<<0, 0, 0, 0>>, <<1, 0, 0, 0>>}) =>
               (stopped <=>
                  \/ next >= Len(contents)
                  \/ Len(contents) - next < 512
                  \/ SubSeq(contents, next + 1, next + 4)
                       # <<136, 22, 136, 88>>)]_vars

\* the parse stopped after an extended 'lk' with image_list_end = 1 although
\* a certificate and a partition follow it in the buffer
C25_Witness ==
  /\ outcome = Returned("LkImage", <<>>)
  /\ Len(partitions) = 1
  /\ partitions[1].part.certs = <<>>
  /\ is_extended(partitions[1].part.header)
  /\ partitions[1].part.header.image_list_end = LE32(1)
  /\ SliceFrom(contents, partitions[1].part.end_offset) = CertUnit \o LastUnit


\* C26: when parsing, every unit whose name starts with 'cert' is appended,
\* in stream order, to the certificate list of the most recently parsed
\* non-certificate partition and is never inserted in the partition mapping;
\* if no non-certificate partition has been parsed yet, construction fails
\* with InvalidLkPartition.
C26_CertificatesFollowOwner ==
  [][LET o == outcome.args.offset
         name == UntilNul(SubSeq(contents, o + 9, o + 40))
         n == Len(partitions)
     IN (/\ outcome.op = "_parse_partitions"
         /\ Len(contents) - o >= 512
         /\ SubSeq(contents, o + 1, o + 4) = <<136, 22, 136, 88>>
         /\ Len(name) >= 4
         /\ SubSeq(name, 1, 4) = <<99, 101, 114, 116>>) =>
          IF n = 0
            THEN /\ outcome'.op = "LkImage"
                 /\ outcome'.raised = "InvalidLkPartition"
                 /\ partitions' = <<>>
            ELSE /\ outcome'.raised # "InvalidLkPartition"
                 /\ Keys(partitions') = Keys(partitions)
                 /\ \A k \in 1..(n - 1) :
                      partitions'[k].part = partitions[k].part
                 /\ Len(partitions'[n].part.certs) =
                      Len(partitions[n].part.certs) + 1
                 /\ SubSeq(partitions'[n].part.certs, 1,
                           Len(partitions[n].part.certs)) =
                      partitions[n].part.certs
                 /\ HeaderBytes(partitions'[n].part.certs[
                        Len(partitions'[n].part.certs)].header) =
                      SubSeq(contents, o + 1, o + 512)
                 /\ \A k \in 1..n :
                      partitions'[k].name # name]_vars

\* 'lk', 'cert1' and 'cert2' were parsed: 'lk' is the only partition and has
\* the two certificates in the order of the buffer
C26_Witness ==
  /\ outcome = Returned("LkImage", <<>>)
  /\ Keys(partitions) = <<Str_lk>>
  /\ CertList(partitions[1].part.certs) =
       <<[name |-> Str_cert1, data |-> <<>>],
         [name |-> Str_cert2, data |-> <<>>]>>


\* C27: when parsing, a non-certificate unit whose name is already in the
\* partition mapping makes construction fail with an error: the later unit
\* neither replaces the earlier partition nor is stored under a renamed key,
\* and the failure is not covered by the trailing-garbage tolerance even
\* though earlier partitions were parsed successfully.
C27_DuplicateNameFails ==
  [][LET o == outcome.args.offset
         name == UntilNul(SubSeq(contents, o + 9, o + 40))
     IN (/\ outcome.op = "_parse_partitions"
         /\ Len(contents) - o >= 512
         /\ SubSeq(contents, o + 1, o + 4) = <<136, 22, 136, 88>>
         /\ ~(Len(name) >= 4 /\ SubSeq(name, 1, 4) = <<99, 101, 114, 116>>)
         /\ \E k \in 1..Len(partitions) : partitions[k].name = name) =>
          /\ outcome'.op = "LkImage"
          /\ outcome'.raised = "InvalidLkPartition"
          /\ partitions' = partitions]_vars

\* 'lk', 'a' and a second 'lk' were read: the constructor raised with the two
\* partitions parsed before
C27_Witness ==
  /\ outcome.op = "LkImage"
  /\ outcome.raised = "InvalidLkPartition"
  /\ outcome.args.text = "Duplicate partition name"
  /\ Keys(partitions) = <<Str_lk, Str_a>>
  /\ contents = UnitOf(Str_lk) \o UnitOf(Str_a) \o UnitOf(Str_lk)


\* C28: the 0x4040 header shift is a one-time, whole-image adjustment: it is
\* applied only when the first 4 bytes of the whole image are 'BFBF', and only
\* to the header read of the first partition; a later unit whose own byte
\* window starts with 'BFBF' is read at its unshifted offset.
C28_ShiftOnlyAtImageStart ==
  [][LET o == outcome.args.offset
         shift == IF o = 0 /\ Slice(contents, 0, 4) = BFBF THEN 16448 ELSE 0
         units == Units(partitions')
     IN (/\ outcome.op = "_parse_partitions"
         /\ Len(units) = Len(Units(partitions)) + 1) =>
          \E i \in 1..Len(units) :
            /\ \A j \in 1..Len(Units(partitions)) :
                 Units(partitions)[j].header =
                   units[IF j < i THEN j ELSE j + 1].header
            /\ HeaderBytes(units[i].header) =
                 Slice(contents, o + shift, o + shift + 512)]_vars


\* C29: a whole-image apply_patch (no partition given) changes only the
\* contents buffer and never any partition's payload, header or certificate
\* list; the contents produced by any later rebuild (triggered by
\* add_partition, remove_partition or a partition-targeted apply_patch) are
\* computed from the partition collection alone, so they are independent of
\* every earlier whole-image patch.
C29_WholeImagePatchFrame ==
  [][/\ (/\ outcome'.op = "apply_patch"
         /\ outcome'.raised = "none"
         /\ outcome'.args.partition = None) =>
          /\ partitions' = partitions
          /\ contents' =
               SliceAssign(contents, Find(contents, outcome'.args.needle),
                           outcome'.args.patch)
     /\ (/\ outcome'.raised = "none"
         /\ \/ outcome'.op \in {"add_partition", "remove_partition", "rebuild"}
            \/ /\ outcome'.op = "apply_patch"
               /\ outcome'.args.partition # None) =>
          contents' =
            IF partitions' = <<>> THEN <<>>
            ELSE rebuild_loop(set_list_end_flags(partitions'), 1,
                              <<>>).contents]_vars

\* a whole-image apply_patch has returned and left the contents different
\* from what the partitions serialize to
C29_Witness ==
  /\ outcome.op = "apply_patch"
  /\ outcome.raised = "none"
  /\ outcome.args.partition = None
  /\ Len(partitions) = 2
  /\ rebuild_contents(partitions, contents).raised = "none"
  /\ rebuild_contents(partitions, contents).contents # contents

====
